---- MODULE Spec2Model ----
(***************************************************************************)
(* sample_decorator.py (Python 2): the decorator hello_goodbye and its     *)
(* inner function wrapper, run statement by statement by a small Python    *)
(* interpreter: a call stack of frames, the value or exception travelling  *)
(* between frames, and the trace of observable events (lines written to    *)
(* standard output, invocations of the target callable).                   *)
(*                                                                         *)
(* The module-level code that uses the decorator is the environment: it    *)
(* decorates a target f (once or twice) and then calls what it got with    *)
(* the argument tuple a.                                                   *)
(***************************************************************************)
EXTENDS Integers, Sequences, FiniteSets, TLC

VARIABLES
    f,          \* the target callable the module-level code decorates
    a,          \* the argument tuple it later calls the result with
    wraps,      \* how many times it applies hello_goodbye (1, or 2: nested)
    cpc,        \* the module-level statement being executed (1 .. wraps + 1)
    w,          \* module-level name bound to what hello_goodbye returned
    r,          \* module-level name bound to what w(*a) returned
    status,     \* "running", "done", or "crashed" (uncaught exception)
    stack,      \* call stack, innermost frame last
    pending,    \* value being returned / exception being raised, or nothing
    trace       \* observable events, oldest first

vars == <<f, a, wraps, cpc, w, r, status, stack, pending, trace>>

----------------------------------------------------------------------------
\* Bounds of the explored inputs.

MaxArg == 3         \* integer arguments range over 0 .. MaxArg
MaxArity == 2       \* argument tuples have 0 .. MaxArity items
MaxWraps == 2       \* hello_goodbye applied 1 .. MaxWraps times

----------------------------------------------------------------------------
\* Python values.

None == [t |-> "NoneType", v |-> 0]
PyInt(i) == [t |-> "int", v |-> i]
\* a str is kept as the sequence of its fragments (their concatenation)
PyStr(s) == [t |-> "str", v |-> <<s>>]
PyText(fragments) == [t |-> "str", v |-> fragments]
PyTuple(items) == [t |-> "tuple", v |-> items]
PyList(items) == [t |-> "list", v |-> items]
\* a function defined with def at module level, known by its __name__
PyFunction(name) == [t |-> "function", v |-> name]
\* the function object made by "def wrapper(*args)": it closes over func
Closure(func) == [t |-> "closure", v |-> func]

\* The target callables of the environment.
TargetNames == {"add", "div", "ident"}
Targets == {PyFunction(n) : n \in TargetNames}

\* The argument tuples of the environment: integers, and tuples of them.
ArgValues == {PyInt(i) : i \in 0..MaxArg}
ArgTuples == UNION {[1..n -> ArgValues] : n \in 0..MaxArity}

----------------------------------------------------------------------------
\* Exceptions and what travels between frames.

Origin(fn, line) == [fn |-> fn, line |-> line]
Exc(type, origin) == [kind |-> "exc", type |-> type, origin |-> origin, value |-> None]
Value(v) == [kind |-> "value", type |-> "", origin |-> Origin("", 0), value |-> v]
Nothing == [kind |-> "none", type |-> "", origin |-> Origin("", 0), value |-> None]

----------------------------------------------------------------------------
\* Python built-ins used by the two print statements.

RECURSIVE Concat(_)
\* the characters of a str: its fragments joined
Concat(fragments) ==
    IF fragments = <<>> THEN ""
    ELSE Head(fragments) \o Concat(Tail(fragments))

RECURSIVE Repr(_)
RECURSIVE JoinRepr(_)
\* ", ".join(repr(x) for x in items)
JoinRepr(items) ==
    IF items = <<>> THEN ""
    ELSE IF Len(items) = 1 THEN Repr(items[1])
    ELSE Repr(Head(items)) \o ", " \o JoinRepr(Tail(items))

\* repr(v); a function object's address is left out
Repr(v) ==
    CASE v.t = "int" -> ToString(v.v)
      [] v.t = "str" -> "'" \o Concat(v.v) \o "'"
      [] v.t = "tuple" ->
            IF Len(v.v) = 1 THEN "(" \o Repr(v.v[1]) \o ",)"
            ELSE "(" \o JoinRepr(v.v) \o ")"
      [] v.t = "list" -> "[" \o JoinRepr(v.v) \o "]"
      [] v.t = "function" -> "<function " \o v.v \o ">"
      [] v.t = "closure" -> "<function wrapper>"
      [] OTHER -> "None"

\* str(v), which is what an empty format spec applies to a field's value
Str(v) == IF v.t = "str" THEN Concat(v.v) ELSE Repr(v)

\* A format string is the sequence of its literal texts and replacement fields.
Lit(s) == [k |-> "lit", s |-> s, i |-> 0]
Field(i) == [k |-> "field", s |-> "", i |-> i]

\* template.format(*posargs): replacement field {i} takes posargs[i] (0-based)
\* and raises IndexError when there is no such positional argument.
Format(template, posargs, origin) ==
    IF \E j \in 1..Len(template) :
          template[j].k = "field" /\ template[j].i >= Len(posargs)
    THEN Exc("IndexError", origin)
    ELSE Value(PyText([j \in 1..Len(template) |->
                          IF template[j].k = "lit" THEN template[j].s
                          ELSE Str(posargs[template[j].i + 1])]))

\* v.__name__
Name(v, origin) ==
    CASE v.t = "function" -> Value(PyStr(v.v))
      [] v.t = "closure" -> Value(PyStr("wrapper"))
      [] OTHER -> Exc("AttributeError", origin)

----------------------------------------------------------------------------
\* The bodies of the target callables: add(x, y) = x + y, div(x, y) = x / y
\* (Python 2 integer division) and ident(x) = x.

IsInt(v) == v.t = "int"

TargetBody(name, argv) ==
    LET origin == Origin("target", 0) IN
    CASE name = "add" ->
            IF Len(argv) # 2 \/ ~IsInt(argv[1]) \/ ~IsInt(argv[2])
            THEN Exc("TypeError", origin)
            ELSE Value(PyInt(argv[1].v + argv[2].v))
      [] name = "div" ->
            IF Len(argv) # 2 \/ ~IsInt(argv[1]) \/ ~IsInt(argv[2])
            THEN Exc("TypeError", origin)
            ELSE IF argv[2].v = 0 THEN Exc("ZeroDivisionError", origin)
            ELSE Value(PyInt(argv[1].v \div argv[2].v))
      [] name = "ident" ->
            IF Len(argv) # 1 THEN Exc("TypeError", origin)
            ELSE Value(argv[1])
      [] OTHER -> Exc("NameError", origin)

----------------------------------------------------------------------------
\* Frames and events.

\* A frame of hello_goodbye (locals func, wrapper) or of wrapper (free variable
\* func, locals args, return_value); pc is the source line about to execute.
Frame(fn, pc, func, wrapper_, args, return_value) ==
    [fn |-> fn, pc |-> pc, func |-> func, wrapper |-> wrapper_,
     args |-> args, return_value |-> return_value]

Top == stack[Len(stack)]
Pop == SubSeq(stack, 1, Len(stack) - 1)
SetTop(fr) == [stack EXCEPT ![Len(stack)] = fr]

\* a line written to standard output by a print statement
PrintEv(text) ==
    [ev |-> "print", text |-> text, callee |-> None, args |-> <<>>, result |-> Nothing]
\* one execution of a target callable's body, with the arguments it received
CallEv(callee, argv, result) ==
    [ev |-> "call", text |-> <<>>, callee |-> callee, args |-> argv, result |-> result]

\* callee(*argv), evaluated in the frame on top of the stack (or at module
\* level): a target runs its body, a closure gets a new wrapper frame, anything
\* else is not callable.
Call(callee, argv, origin) ==
    CASE callee.t = "function" ->
            LET res == TargetBody(callee.v, argv) IN
            /\ trace' = Append(trace, CallEv(callee, argv, res))
            /\ pending' = res
            /\ stack' = stack
      [] callee.t = "closure" ->
            /\ stack' = Append(stack, Frame("wrapper", 4, callee.v, None, argv, None))
            /\ pending' = Nothing
            /\ trace' = trace
      [] OTHER ->
            /\ pending' = Exc("TypeError", origin)
            /\ stack' = stack
            /\ trace' = trace

----------------------------------------------------------------------------
\* The two print statements of wrapper.

\* "Entering {0} with args {1}"
EnteringTemplate == <<Lit("Entering "), Field(0), Lit(" with args "), Field(1)>>
\* "Exiting {0} with return value {1}"
ExitingTemplate == <<Lit("Exiting "), Field(0), Lit(" with return value "), Field(1)>>

\* format called with the two pieces as separate positional arguments: what
\* line 4 would pass had it been written .format(func.__name__, args)
EnteringArgsUnpacked(name, args) == <<name, PyTuple(args)>>
\* the positional arguments handed to format on line 4: one list
EnteringArgs(name, args) == <<PyList(<<name, PyTuple(args)>>)>>
\* the positional arguments handed to format on line 6: one list
ExitingArgs(name, return_value) == <<PyList(<<name, return_value>>)>>

\* print template.format(...): func.__name__ is looked up, then the string is
\* formatted, then it is written; a failure of either leaves nothing written.
PrintStmt(template, func, rest, line, nextpc) ==
    LET origin == Origin("wrapper", line)
        name == Name(func, origin)
        text == IF line = 4
                THEN Format(template, EnteringArgs(name.value, rest), origin)
                ELSE Format(template, ExitingArgs(name.value, rest), origin)
    IN  IF name.kind = "exc"
        THEN /\ pending' = name
             /\ UNCHANGED <<stack, trace>>
        ELSE IF text.kind = "exc"
        THEN /\ pending' = text
             /\ UNCHANGED <<stack, trace>>
        ELSE /\ trace' = Append(trace, PrintEv(text.value.v))
             /\ stack' = SetTop([Top EXCEPT !.pc = nextpc])
             /\ pending' = Nothing

----------------------------------------------------------------------------
\* Initial state: the module-level code is about to run its first statement.

Init ==
    /\ f \in Targets
    /\ a \in ArgTuples
    /\ wraps \in 1..MaxWraps
    /\ cpc = 1
    /\ w = None
    /\ r = None
    /\ status = "running"
    /\ stack = <<>>
    /\ pending = Nothing
    /\ trace = <<>>

\* One step of a wrapper frame: the statement at line 4, 5, 6 or 8.
wrapper ==
    /\ status = "running"
    /\ stack # <<>>
    /\ Top.fn = "wrapper"
    /\ pending.kind # "exc"
    /\ UNCHANGED <<f, a, wraps, cpc, w, r, status>>
    /\ CASE Top.pc = 4 ->
              PrintStmt(EnteringTemplate, Top.func, Top.args, 4, 5)
         [] Top.pc = 5 ->
              IF pending.kind = "none"
              THEN Call(Top.func, Top.args, Origin("wrapper", 5))
              ELSE /\ stack' = SetTop([Top EXCEPT !.return_value = pending.value,
                                                  !.pc = 6])
                   /\ pending' = Nothing
                   /\ trace' = trace
         [] Top.pc = 6 ->
              PrintStmt(ExitingTemplate, Top.func, Top.return_value, 6, 8)
         [] OTHER ->
              /\ stack' = Pop
              /\ pending' = Value(Top.return_value)
              /\ trace' = trace

\* One step of a hello_goodbye frame: "def wrapper" (line 3), then
\* "return wrapper(func)" (line 10), which calls wrapper and returns its result.
hello_goodbye ==
    /\ status = "running"
    /\ stack # <<>>
    /\ Top.fn = "hello_goodbye"
    /\ pending.kind # "exc"
    /\ UNCHANGED <<f, a, wraps, cpc, w, r, status>>
    /\ IF Top.pc = 3
       THEN /\ stack' = SetTop([Top EXCEPT !.wrapper = Closure(Top.func), !.pc = 10])
            /\ UNCHANGED <<pending, trace>>
       ELSE IF pending.kind = "none"
       THEN Call(Top.wrapper, <<Top.func>>, Origin("hello_goodbye", 10))
       ELSE /\ stack' = Pop
            /\ UNCHANGED <<pending, trace>>

\* An exception leaves the frame it was raised in: neither function has a
\* try statement, and at module level it ends the program.
Propagate ==
    /\ status = "running"
    /\ pending.kind = "exc"
    /\ IF stack # <<>>
       THEN /\ stack' = Pop
            /\ UNCHANGED status
       ELSE /\ status' = "crashed"
            /\ UNCHANGED stack
    /\ UNCHANGED <<f, a, wraps, cpc, w, r, pending, trace>>

\* One step of the module-level code:
\*   w = hello_goodbye(f)   [w = hello_goodbye(w)]   r = w(*a)
Client ==
    /\ status = "running"
    /\ stack = <<>>
    /\ pending.kind # "exc"
    /\ UNCHANGED <<f, a, wraps>>
    /\ IF pending.kind = "none"
       THEN /\ IF cpc <= wraps
               THEN /\ stack' = <<Frame("hello_goodbye", 3,
                                        IF cpc = 1 THEN f ELSE w, None, <<>>, None)>>
                    /\ UNCHANGED <<pending, trace>>
               ELSE Call(w, a, Origin("module", 0))
            /\ UNCHANGED <<cpc, w, r, status>>
       ELSE /\ IF cpc <= wraps
               THEN w' = pending.value /\ r' = r
               ELSE r' = pending.value /\ w' = w
            /\ cpc' = cpc + 1
            /\ status' = IF cpc = wraps + 1 THEN "done" ELSE "running"
            /\ pending' = Nothing
            /\ UNCHANGED <<stack, trace>>

Next == Client \/ hello_goodbye \/ wrapper \/ Propagate

Spec == Init /\ [][Next]_vars

----------------------------------------------------------------------------
\* What the properties speak of.

\* the module-level program has ended, normally or by an uncaught exception
Finished == status \in {"done", "crashed"}
\* the call hello_goodbye(f) of the first module-level statement has just ended
WrapEnded == cpc = 1 /\ stack = <<>> /\ pending.kind # "none"
\* what invoking f with a directly gives: a value, or the exception f raises
Direct == TargetBody(f.v, a)

IsPrint(e) == e.ev = "print"
IsCall(e) == e.ev = "call"
IsEntering(e) == IsPrint(e) /\ Head(e.text) = "Entering "
IsExiting(e) == IsPrint(e) /\ Head(e.text) = "Exiting "
\* the lines on standard output, and the executions of target bodies
Stdout == SelectSeq(trace, IsPrint)
TargetCalls == SelectSeq(trace, IsCall)

----------------------------------------------------------------------------
\* C1: the callable produced by hello_goodbye(f), invoked with a, returns the
\* value that f(a) returns: once the program "w = hello_goodbye(f); r = w(*a)"
\* has ended and f(a) has a value, it ended normally with r bound to that value.
C1_PassThrough ==
    (wraps = 1 /\ Finished /\ Direct.kind = "value")
        => (status = "done" /\ r = Direct.value)

\* C2: hello_goodbye(f) completes normally and yields a new callable closing
\* over f; wrapping invokes no target and writes no line.
C2_WrapDeferred ==
    WrapEnded => /\ pending.kind = "value"
                 /\ pending.value = Closure(f)
                 /\ trace = <<>>

\* C3: when f(a) returns normally, one invocation of the wrapped callable writes
\* exactly one Entering line and then exactly one Exiting line.
C3_OneEnteringOneExiting ==
    (wraps = 1 /\ Finished /\ Direct.kind = "value")
        => /\ Len(Stdout) = 2
           /\ IsEntering(Stdout[1])
           /\ IsExiting(Stdout[2])

\* C4: when f raises on a, invoking the wrapped callable with a raises that same
\* error to the caller, and no Exiting line is written.
C4_TargetErrorPropagates ==
    (wraps = 1 /\ Finished /\ Direct.kind = "exc")
        => /\ status = "crashed"
           /\ pending = Direct
           /\ \A i \in 1..Len(Stdout) : ~IsExiting(Stdout[i])

\* C5: the only exceptions ever raised are those a target callable raises; the
\* two print statements never fail.
C5_NoOwnError ==
    pending.kind = "exc" => pending.origin.fn = "target"

\* C6: hello_goodbye(hello_goodbye(f)) invoked with a writes two nested
\* Entering/Exiting pairs and returns the value of f(a).
C6_DoubleWrap ==
    (wraps = 2 /\ Finished /\ Direct.kind = "value")
        => /\ status = "done"
           /\ r = Direct.value
           /\ Len(Stdout) = 4
           /\ IsEntering(Stdout[1]) /\ IsEntering(Stdout[2])
           /\ IsExiting(Stdout[3]) /\ IsExiting(Stdout[4])

\* C7: one invocation of the wrapped callable with a invokes the target exactly
\* once, with exactly the arguments a.
C7_TargetInvokedOnceWithArgs ==
    (wraps = 1 /\ Finished)
        => /\ Len(TargetCalls) = 1
           /\ TargetCalls[1].callee = f
           /\ TargetCalls[1].args = a

\* C8: within one invocation the Entering line is written, then the target runs,
\* then the Exiting line (naming the captured return value) is written, and only
\* then does the wrapper return.
C8_StepOrder ==
    (wraps = 1 /\ Finished /\ Direct.kind = "value")
        => /\ Len(trace) = 3
           /\ IsEntering(trace[1])
           /\ IsCall(trace[2]) /\ trace[2].result = Direct
           /\ IsExiting(trace[3])
           /\ trace[3].text[Len(trace[3].text)] = Str(Direct.value)

\* C9: hello_goodbye(f) itself invokes the target f once at wrap time, through
\* wrapper(f), and what it returns is that call's result.
C9_InvokesTargetAtWrapTime ==
    WrapEnded => /\ Len(TargetCalls) = 1
                 /\ TargetCalls[1].callee = f
                 /\ TargetCalls[1].args = <<f>>
                 /\ pending = TargetCalls[1].result

\* C10: hello_goodbye(f) runs wrapper at once with args = (f,); the first print
\* statement's format call fails with IndexError before anything is written; so
\* no target is ever invoked, no line is ever written, and the call ends in that
\* error instead of returning a value.
C10_WrapAlwaysFails ==
    /\ trace = <<>>
    /\ \A i \in 1..Len(stack) :
          stack[i].fn = "wrapper" => stack[i].args = <<f>> /\ stack[i].pc = 4
    /\ pending.kind # "value"
    /\ pending.kind = "exc" =>
          pending.type = "IndexError" /\ pending.origin = Origin("wrapper", 4)
    /\ WrapEnded => pending.kind = "exc"
    /\ cpc = 1 /\ w = None /\ status # "done"

\* hello_goodbye(f) has ended in the IndexError of line 4, uncaught
C10_Witness ==
    /\ status = "crashed"
    /\ cpc = 1
    /\ pending.kind = "exc" /\ pending.type = "IndexError"
    /\ pending.origin = Origin("wrapper", 4)
    /\ trace = <<>>

====
